---- MODULE Spec2Model ----
(***************************************************************************)
(* A model of memote's report scoring, report assembly and result store:   *)
(*   src/src/memote/suite/reporting/report.py        (Report)              *)
(*   src/src/memote/suite/reporting/snapshot.py      (SnapshotReport)      *)
(*   src/src/memote/suite/reporting/diff.py          (DiffReport)          *)
(*   src/src/memote/suite/reporting/report_configuration.py                *)
(*   src/src/memote/suite/results/memote_result.py                         *)
(*   src/src/memote/suite/results/repo_result_manager.py                   *)
(*   src/src/memote/utils.py                         (jsonify)             *)
(*                                                                         *)
(* Numbers.  A Python float is modelled by an exact rational <<n, d>> in   *)
(* lowest terms with d > 0.  The inputs are small dyadic numbers, for      *)
(* which 1.0 - m, the sums and the products of the code are exact in       *)
(* binary floating point; only the rounding of a quotient is abstracted.   *)
(* A numpy float64 quotient with a zero divisor is <<1, 0>> (inf),         *)
(* <<-1, 0>> (-inf) or <<0, 0>> (nan).  <<>> is None / no such attribute.  *)
(*                                                                         *)
(* Dictionaries whose iteration order the code depends on (the cards of a  *)
(* section, the models of a diff) are sequences of records in insertion    *)
(* order with unique ids; the others are functions.  The first loop of     *)
(* compute_score treats each test on its own, so the order of the tests    *)
(* of a result is not kept.                                                *)
(*                                                                         *)
(* Libraries.  The code relies on these behaviours of its libraries:       *)
(*  - pydantic: assigning to an attribute that is not a declared field of  *)
(*    a BaseModel raises ValueError ('object has no field'); parse_obj of  *)
(*    a value that is no dict, or of a dict without a required field,      *)
(*    raises ValidationError; a Union field takes the first of its types   *)
(*    that validates;                                                      *)
(*  - Python: dict.update returns None; json.dumps(allow_nan=False)        *)
(*    raises ValueError for nan and the infinities;                        *)
(*  - pandas: scores.loc[labels, column] with a label that is not in the   *)
(*    index raises KeyError naming the labels that are not;                *)
(*  - numpy: Series.sum() gives a numpy.float64, whose division by zero    *)
(*    gives nan or inf, while 0.0 / 0.0 on Python floats raises            *)
(*    ZeroDivisionError.                                                   *)
(* An exception ends the method that raised it and every caller up to the  *)
(* caller of the report; what was mutated before stays mutated.            *)
(***************************************************************************)
EXTENDS Integers, Sequences, FiniteSets, TLC

VARIABLES
    result,     \* Report.result.tests: test id -> test case result
    config,     \* Report.config: [scored, unscored, weights, score]
    scores,     \* the DataFrame `scores` of the last compute_score call
    last,       \* the last operation and how it ended
    miscCalls,  \* calls of determine_miscellaneous_tests so far
    scoreCalls, \* calls of compute_score so far
    models,     \* DiffReport: diff_results, model file name -> result, in order
    idx,        \* DiffReport: number of models whose loop body has been entered
    base,       \* DiffReport: the local `base` of format_and_score_diff_data
    ret,        \* DiffReport: what format_and_score_diff_data returned, if it did
    repo,       \* RepoResultManager._repo: the commits and the head
    backend,    \* RepoResultManager._backend: file name -> content of the file
    stored,     \* the results handed to store: hexsha -> the last one stored for it
    loaded,     \* what RepoResultManager.load returned last
    other,      \* ReportConfiguration.merge: the argument `other`
    merged      \* what ReportConfiguration.merge or load returned last

reportVars ==
    <<result, config, scores, last, miscCalls, scoreCalls, models, idx, base, ret>>
reportVarsButLast ==
    <<result, config, scores, miscCalls, scoreCalls, models, idx, base, ret>>
storeVars == <<repo, backend, stored, loaded>>
configVars == <<other, merged>>
vars == <<reportVars, storeVars, configVars>>

----------------------------------------------------------------------------
(* Bounds of the model. *)

MaxCases == 1
MaxCards == 1
MaxMiscCalls == 2
MaxScoreCalls == 2
MaxModels == 2

----------------------------------------------------------------------------
(* Floats as exact rationals. *)

None == <<>>

Abs(x) == IF x < 0 THEN -x ELSE x

RECURSIVE Gcd(_, _)
Gcd(a, b) == IF b = 0 THEN a ELSE Gcd(b, a % b)

\* The rational n/d, d # 0, in lowest terms with a positive denominator.
Rat(n, d) ==
    LET g == Gcd(Abs(n), Abs(d))
        s == IF d < 0 THEN -1 ELSE 1
    IN  <<(s * n) \div g, (s * d) \div g>>

Int2F(n) == <<n, 1>>
Zero == Int2F(0)
One == Int2F(1)

FAdd(x, y) == Rat(x[1] * y[2] + y[1] * x[2], x[2] * y[2])
FSub(x, y) == Rat(x[1] * y[2] - y[1] * x[2], x[2] * y[2])
FMul(x, y) == Rat(x[1] * y[1], x[2] * y[2])

\* x / y on Python floats; the caller handles y = 0 (ZeroDivisionError).
FDiv(x, y) == Rat(x[1] * y[2], x[2] * y[1])

\* x / y on numpy float64: a zero divisor gives nan or a signed infinity
\* (and a RuntimeWarning), not an exception.
NpDiv(x, y) ==
    IF y[1] # 0 THEN FDiv(x, y)
    ELSE IF x[1] = 0 THEN <<0, 0>>
    ELSE IF x[1] > 0 THEN <<1, 0>>
    ELSE <<-1, 0>>

----------------------------------------------------------------------------
(* Sequences and sets. *)

Range(s) == {s[i] : i \in 1..Len(s)}

SeqsUpTo(S, n) == UNION {[1..k -> S] : k \in 0..n}

\* Every order in which a Python set with the elements S can be iterated.
Orders(S) == {s \in [1..Cardinality(S) -> S] : Range(s) = S}

RECURSIVE FSum(_)
FSum(s) == IF s = <<>> THEN Zero ELSE FAdd(s[1], FSum(Tail(s)))

\* The position of the card with this id in a section's cards, 0 if none.
CardIndex(cards, id) ==
    IF \E i \in 1..Len(cards) : cards[i].id = id
    THEN CHOOSE i \in 1..Len(cards) : cards[i].id = id
    ELSE 0

----------------------------------------------------------------------------
(* The data model: memote_result.py and report_configuration.py. *)

\* The fields each pydantic model declares.  BaseModel.__setattr__ accepts an
\* assignment only to a declared field (no class here sets Config.extra).
ReportCardFields == {"title", "cases"}
ScoredReportCardFields == ReportCardFields \cup {"weight"}
UnscoredSectionFields == {"title", "cards", "description"}
ScoredSectionFields == UnscoredSectionFields

\* TestCaseResult: the optional fields default to None.
TestCaseResult(title, metric) ==
    [kind |-> "scalar", title |-> title, metric |-> metric, score |-> None,
     data |-> None, duration |-> None, message |-> None, result |-> None]

\* ParametrizedTestCaseResult: every optional field is a dict keyed by parameter.
\* data, duration, message and result carry the keys of the metric.
ParametrizedTestCaseResult(title, metric) ==
    [kind |-> "param", title |-> title, metric |-> metric, score |-> <<>>,
     data |-> [k \in DOMAIN metric |-> None],
     duration |-> [k \in DOMAIN metric |-> None],
     message |-> [k \in DOMAIN metric |-> None],
     result |-> [k \in DOMAIN metric |-> None]]

\* ReportCard; an unscored section holds these.
ReportCard(id, title, cases) == [id |-> id, title |-> title, cases |-> cases]

\* ScoredReportCard.  `score` is the slot of the attribute compute_score
\* assigns; the class declares no such field, so it is None unless an
\* assignment to it was accepted.
ScoredReportCard(id, title, cases, weight) ==
    [id |-> id, title |-> title, cases |-> cases, weight |-> weight, score |-> None]

\* ReportConfiguration: sections.scored.cards, sections.unscored.cards and
\* weights; `score` is the slot of sections.scored.score (no declared field).
ReportConfiguration(scored, unscored, weights) ==
    [scored |-> scored, unscored |-> unscored, weights |-> weights, score |-> None]

----------------------------------------------------------------------------
(* Report.get_configured_tests and Report.determine_miscellaneous_tests. *)

CardTests(cards) == UNION {Range(cards[i].cases) : i \in 1..Len(cards)}

scored_tests(cfg) == CardTests(cfg.scored)

unscored_tests(cfg) == CardTests(cfg.unscored)

\* The ids in both sections: when non-empty an error is logged, no more.
shared(cfg) == scored_tests(cfg) \cap unscored_tests(cfg)

\* A variant that forgets the unscored section.
get_configured_tests_ScoredOnly(cfg) == scored_tests(cfg)

get_configured_tests(cfg) == scored_tests(cfg) \cup unscored_tests(cfg)

unconfigured_tests(tests, cfg) == DOMAIN tests \ get_configured_tests(cfg)

\* cards.setdefault("misc", ReportCard(title="Misc. Tests", cases=[])): the
\* cards with a card "misc" at the end if there was none.
SetDefaultMisc(cards) ==
    IF CardIndex(cards, "misc") # 0 THEN cards
    ELSE Append(cards, ReportCard("misc", "Misc. Tests", <<>>))

\* misc.cases.extend(order), order being the iteration order of the set.
ExtendMisc(cards, order) ==
    LET withMisc == SetDefaultMisc(cards)
        i == CardIndex(withMisc, "misc")
    IN  [withMisc EXCEPT ![i].cases = @ \o order]

\* A variant without the `if unconfigured_tests:` guard.
determine_miscellaneous_tests_NoGuard(tests, cfg, order) ==
    [cfg EXCEPT !.unscored = ExtendMisc(@, order)]

\* The configuration after determine_miscellaneous_tests, the set of
\* unconfigured tests being iterated in this order.
determine_miscellaneous_tests(tests, cfg, order) ==
    IF unconfigured_tests(tests, cfg) # {}
    THEN [cfg EXCEPT !.unscored = ExtendMisc(@, order)]
    ELSE cfg

----------------------------------------------------------------------------
(* Report.compute_score. *)

RECURSIVE SumScores(_, _)
\* total, after `value = 1.0 - value; total += value` for the keys in K.
SumScores(metric, K) ==
    IF K = {} THEN Zero
    ELSE LET k == CHOOSE x \in K : TRUE
         IN  FAdd(FSub(One, metric[k]), SumScores(metric, K \ {k}))

\* A variant that writes 1.0 - metric over the metric of a scalar test.
ScoredTest_WritesMetric(r) ==
    IF r.kind = "param"
    THEN [r EXCEPT !.score =
            [k \in DOMAIN r.score \cup DOMAIN r.metric |->
                IF k \in DOMAIN r.metric THEN FSub(One, r.metric[k]) ELSE r.score[k]]]
    ELSE [r EXCEPT !.metric = FSub(One, r.metric), !.score = FSub(One, r.metric)]

\* The test's record after the first loop: result.score[key] = 1.0 - value for
\* every key of a parametrized metric (the other keys of score are kept),
\* result.score = 1.0 - result.metric for a scalar one.
ScoredTest(r) ==
    IF r.kind = "param"
    THEN [r EXCEPT !.score =
            [k \in DOMAIN r.score \cup DOMAIN r.metric |->
                IF k \in DOMAIN r.metric THEN FSub(One, r.metric[k]) ELSE r.score[k]]]
    ELSE [r EXCEPT !.score = FSub(One, r.metric)]

\* A variant that takes the total of a parametrized test for its mean.
TestScore_NoMean(r) ==
    IF r.kind = "param"
    THEN SumScores(r.metric, DOMAIN r.metric)
    ELSE FSub(One, r.metric)

\* The local `score` written to scores.at[test, "score"].
TestScore(r) ==
    IF r.kind = "param"
    THEN IF Cardinality(DOMAIN r.metric) = 0
         THEN Zero
         ELSE FDiv(SumScores(r.metric, DOMAIN r.metric),
                   Int2F(Cardinality(DOMAIN r.metric)))
    ELSE FSub(One, r.metric)

\* self.config.weights.get(test, 1.0)
TestWeight(cfg, test) ==
    IF test \in DOMAIN cfg.weights THEN cfg.weights[test] ELSE One

\* The row of `scores` for a test after the first loop: the frame starts with
\* score 0.0 and max 1.0, the score is set, and scores.loc[test, :] *= weight
\* multiplies both columns of the row.
ScoresRow(cfg, test, r) ==
    [score |-> FMul(TestScore(r), TestWeight(cfg, test)),
     max |-> FMul(One, TestWeight(cfg, test))]

ScoresFrame(tests, cfg) == [t \in DOMAIN tests |-> ScoresRow(cfg, t, tests[t])]

\* A variant that sums the whole column, whatever the card lists.
ColumnSum_WholeFrame(frame, cases, column) ==
    LET ids == CHOOSE o \in Orders(DOMAIN frame) : TRUE
    IN  FSum([i \in 1..Len(ids) |->
                IF column = "score" THEN frame[ids[i]].score ELSE frame[ids[i]].max])

\* scores.loc[cases, column].sum(): one term per entry of cases.
ColumnSum(frame, cases, column) ==
    FSum([i \in 1..Len(cases) |->
            IF column = "score" THEN frame[cases[i]].score ELSE frame[cases[i]].max])

\* How a run of compute_score stands: the configuration as mutated so far,
\* the accumulators `score` and `maximum`, whether they are numpy floats yet
\* (they start as Python floats and become numpy ones by the first +=), and
\* the exception that ended the run, if any.
ScoreState(cfg) ==
    [cfg |-> cfg, score |-> Zero, maximum |-> Zero, np |-> FALSE,
     raised |-> "none", missing |-> {}, target |-> "", value |-> None]

Raise(st, exc, missing, target, value) ==
    [st EXCEPT !.raised = exc, !.missing = missing, !.target = target, !.value = value]

\* One pass of the loop over the scored cards, for the card at position i.
ScoreCard(st, frame, i) ==
    LET card == st.cfg.scored[i]
        absent == Range(card.cases) \ DOMAIN frame
        card_score == ColumnSum(frame, card.cases, "score")
        card_total == ColumnSum(frame, card.cases, "max")
    IN  IF card.cases = <<>> THEN st
        ELSE IF absent # {}
        THEN \* scores.loc[card.cases, ...]: KeyError naming the absent labels
             Raise(st, "KeyError", absent, "", None)
        ELSE IF "score" \notin ScoredReportCardFields
        THEN \* card.score = ...: the model has no such field
             Raise(st, "ValueError", {}, "ScoredReportCard.score",
                   NpDiv(card_score, card_total))
        ELSE [st EXCEPT !.cfg.scored[i].score = NpDiv(card_score, card_total),
                        !.score = FAdd(@, FMul(card_score, card.weight)),
                        !.maximum = FAdd(@, FMul(card_total, card.weight)),
                        !.np = TRUE]

RECURSIVE ScoreCards(_, _, _)
\* The loop over the scored cards from position i on; an exception ends it.
ScoreCards(st, frame, i) ==
    IF i > Len(st.cfg.scored) \/ st.raised # "none" THEN st
    ELSE ScoreCards(ScoreCard(st, frame, i), frame, i + 1)

\* A variant whose accumulators are numpy floats from the start, so that
\* 0.0 / 0.0 is nan and no exception.
ScoreSection_NumpyDivision(st) ==
    IF st.raised # "none" THEN st
    ELSE IF "score" \notin ScoredSectionFields
    THEN Raise(st, "ValueError", {}, "ScoredSection.score",
               NpDiv(st.score, st.maximum))
    ELSE [st EXCEPT !.cfg.score = NpDiv(st.score, st.maximum)]

\* self.config.sections.scored.score = score / maximum
ScoreSection(st) ==
    IF st.raised # "none" THEN st
    ELSE IF ~st.np /\ st.maximum = Zero
    THEN Raise(st, "ZeroDivisionError", {}, "", None)
    ELSE IF "score" \notin ScoredSectionFields
    THEN Raise(st, "ValueError", {}, "ScoredSection.score",
               NpDiv(st.score, st.maximum))
    ELSE [st EXCEPT !.cfg.score = NpDiv(st.score, st.maximum)]

\* A variant that writes the scores of the tests only when the run ends
\* without an exception.
compute_score_ScoresOnSuccess(tests, cfg) ==
    LET frame == ScoresFrame(tests, cfg)
        st == ScoreSection(ScoreCards(ScoreState(cfg), frame, 1))
    IN  [tests |-> IF st.raised = "none"
                   THEN [t \in DOMAIN tests |-> ScoredTest(tests[t])]
                   ELSE tests,
         cfg |-> st.cfg, frame |-> frame,
         raised |-> st.raised, missing |-> st.missing,
         target |-> st.target, value |-> st.value]

\* compute_score on these tests and this configuration: the tests and the
\* configuration as it leaves them, the frame, and how it ended.
compute_score(tests, cfg) ==
    LET frame == ScoresFrame(tests, cfg)
        st == ScoreSection(ScoreCards(ScoreState(cfg), frame, 1))
    IN  [tests |-> [t \in DOMAIN tests |-> ScoredTest(tests[t])],
         cfg |-> st.cfg, frame |-> frame,
         raised |-> st.raised, missing |-> st.missing,
         target |-> st.target, value |-> st.value]

----------------------------------------------------------------------------
(* The inputs: results and configurations a report can be built from. *)

TestIds == {"t1", "t2"}

\* What a card may list: the ids of tests, and an id no result has.
CardRefs == TestIds \cup {"missing"}

MetricVals == {Rat(1, 4), One}

ParamKeys == {"a", "b"}

ParamMetricVals == {Zero, One}

\* The metrics of a parametrized test: no key, one key or two.
ParamMetrics == UNION {[K -> ParamMetricVals] : K \in {{}, {"a"}, ParamKeys}}

\* The results a test id can have: t1 is a scalar test, t2 a parametrized
\* test or a scalar one.  Every metric lies in [0, 1], as the test suite
\* promises.
TestValues(t) ==
    IF t = "t1"
    THEN {TestCaseResult("T", m) : m \in MetricVals}
    ELSE {ParametrizedTestCaseResult("T", mf) : mf \in ParamMetrics}
         \cup {TestCaseResult("T", Zero)}

Results ==
    UNION {{f \in [D -> UNION {TestValues(t) : t \in D}] :
                \A t \in D : f[t] \in TestValues(t)} : D \in SUBSET TestIds}

CardWeights == {One, Int2F(2)}

WeightVals == {Zero, Int2F(2), Int2F(-1)}

\* The weights mappings: none, or a weight for one test.
WeightMaps == {<<>>} \cup UNION {[{t} -> WeightVals] : t \in TestIds}

ScoredIds == <<"c1", "c2", "c3">>

Cases == SeqsUpTo(CardRefs, MaxCases)

RECURSIVE FoldCases(_, _)
FoldCases(cards, n) ==
    IF n = 0 THEN 0 ELSE Len(cards[n].cases) + FoldCases(cards, n - 1)

\* The number of cases a section lists, over all its cards.
NumCases(cards) == FoldCases(cards, Len(cards))

\* The scored sections of up to MaxCards cards that list up to MaxCases cases.
ScoredCards ==
    UNION {{sc \in {[i \in 1..n |-> ScoredReportCard(ScoredIds[i], "C", cs[i], ws[i])] :
                        cs \in [1..n -> Cases], ws \in [1..n -> CardWeights]} :
                NumCases(sc) <= MaxCases} :
           n \in 0..MaxCards}

\* The unscored sections: no card, or one card, which may be a card "misc"
\* that the configuration already has.
UnscoredCards ==
    {<<>>} \cup {<<ReportCard(id, "U", cs)>> : id \in {"u1", "misc"}, cs \in Cases}

----------------------------------------------------------------------------
(* The state machine of one Report. *)

Outcome(op, run, logged) ==
    [op |-> op, raised |-> run.raised, missing |-> run.missing,
     target |-> run.target, value |-> run.value, logged |-> logged]

Returned == [raised |-> "none", missing |-> {}, target |-> "", value |-> None]

\* The empty `base` of format_and_score_diff_data.
EmptyBase == [meta |-> "{}", tests |-> <<>>, total_score |-> <<>>, sections |-> <<>>]

NoDiff ==
    /\ models = <<>>
    /\ idx = 0
    /\ base = EmptyBase
    /\ ret = EmptyBase

\* No result manager and no second configuration take part in a report.
NoStore ==
    /\ repo = <<>>
    /\ backend = <<>>
    /\ stored = <<>>
    /\ loaded = <<>>

NoMerge ==
    /\ other = <<>>
    /\ merged = <<>>

NewReport ==
    /\ NoStore
    /\ NoMerge
    /\ scores = <<>>
    /\ last = Outcome("__init__", Returned, FALSE)
    /\ miscCalls = 0
    /\ scoreCalls = 0

\* A result and a configuration, fused by Report.__init__: every result,
\* scored section and weights mapping of the bounds, no unscored card.
Init ==
    /\ result \in Results
    /\ \E sc \in ScoredCards, w \in WeightMaps :
          config = ReportConfiguration(sc, <<>>, w)
    /\ NewReport
    /\ NoDiff

\* The results in which every test has one fixed outcome.
MiscResults ==
    {[t \in D |-> IF t = "t1"
                  THEN TestCaseResult("T", Rat(1, 4))
                  ELSE ParametrizedTestCaseResult("T", [k \in ParamKeys |-> Zero])] :
        D \in SUBSET TestIds}

\* The same report for every set of test ids, scored section and unscored
\* section of the bounds, with card weights of 1.0 and no per-test weight.
InitMisc ==
    /\ result \in MiscResults
    /\ \E sc \in ScoredCards, us \in UnscoredCards :
          /\ \A i \in 1..Len(sc) : sc[i].weight = One
          /\ config = ReportConfiguration(sc, us, <<>>)
    /\ NewReport
    /\ NoDiff

\* Report.determine_miscellaneous_tests()
DetermineMiscellaneousTests ==
    /\ miscCalls < MaxMiscCalls
    /\ \E order \in Orders(unconfigured_tests(result, config)) :
          config' = determine_miscellaneous_tests(result, config, order)
    /\ last' = Outcome("determine_miscellaneous_tests", Returned, shared(config) # {})
    /\ miscCalls' = miscCalls + 1
    /\ UNCHANGED <<result, scores, scoreCalls, models, idx, base, ret>>
    /\ UNCHANGED <<storeVars, configVars>>

\* Report.compute_score()
ComputeScore ==
    /\ scoreCalls < MaxScoreCalls
    /\ LET run == compute_score(result, config)
       IN  /\ result' = run.tests
           /\ config' = run.cfg
           /\ scores' = run.frame
           /\ last' = Outcome("compute_score", run, FALSE)
    /\ scoreCalls' = scoreCalls + 1
    /\ UNCHANGED <<miscCalls, models, idx, base, ret, storeVars, configVars>>

\* SnapshotReport.__init__: determine_miscellaneous_tests, then compute_score.
SnapshotReport ==
    /\ last.op = "__init__"
    /\ \E order \in Orders(unconfigured_tests(result, config)) :
          LET cfg == determine_miscellaneous_tests(result, config, order)
              run == compute_score(result, cfg)
          IN  /\ result' = run.tests
              /\ config' = run.cfg
              /\ scores' = run.frame
              /\ last' = Outcome("SnapshotReport", run, shared(config) # {})
    /\ miscCalls' = miscCalls + 1
    /\ scoreCalls' = scoreCalls + 1
    /\ UNCHANGED <<models, idx, base, ret, storeVars, configVars>>

Next ==
    \/ DetermineMiscellaneousTests
    \/ ComputeScore
    \/ SnapshotReport

Spec == Init /\ [][Next]_vars

MiscSpec == InitMisc /\ [][Next]_vars

----------------------------------------------------------------------------
(* DiffReport: format_and_score_diff_data and __init__. *)

\* d.setdefault(key): the value under the key, None if the key is new.
SetDefault(d, key) == IF key \in DOMAIN d THEN d[key] ELSE None

\* The entry of one model in the diff of a scalar test.
DiffEntry(model, r) ==
    [model |-> model, data |-> r.data, duration |-> r.duration,
     message |-> r.message, metric |-> r.metric, result |-> r.result]

\* The entry of one model in the diff of a parametrized test, for one key.
ParamDiffEntry(model, r, param) ==
    [model |-> model, data |-> SetDefault(r.data, param),
     duration |-> SetDefault(r.duration, param),
     message |-> SetDefault(r.message, param),
     metric |-> SetDefault(r.metric, param),
     result |-> SetDefault(r.result, param)]

\* tests[test_id] after the loop body for one test of one model: the header
\* (title stands for summary, title and format_type) is the one of the first
\* model that has the test, and the model's entries are appended to the diff,
\* a list for a scalar metric and a dict of lists for a dict metric.
MergeTest(tests, model, id, r) ==
    LET header == IF id \in DOMAIN tests THEN tests[id].title ELSE r.title
        old == IF id \in DOMAIN tests THEN tests[id].diff ELSE <<>>
    IN  [kind |-> r.kind, title |-> header,
         diff |-> IF r.kind = "param"
                  THEN [p \in DOMAIN old \cup DOMAIN r.metric |->
                            IF p \notin DOMAIN r.metric THEN old[p]
                            ELSE Append(SetDefault(old, p), ParamDiffEntry(model, r, p))]
                  ELSE Append(old, DiffEntry(model, r))]

\* A test that an earlier model had with the other shape of metric: the diff
\* is then a list where a dict is used, or a dict where a list is.
ShapeClash(tests, mtests) ==
    \E id \in DOMAIN tests \cap DOMAIN mtests : tests[id].kind # mtests[id].kind

\* `tests` after the loop over the tests of one model.
MergeTests(tests, model, mtests) ==
    [id \in DOMAIN tests \cup DOMAIN mtests |->
        IF id \in DOMAIN mtests THEN MergeTest(tests, model, id, mtests[id])
        ELSE tests[id]]

\* How a run of format_and_score_diff_data stands: `base` (its "meta" is
\* never assigned: `meta = result_obj["meta"]` rebinds the local name), the
\* local `meta`, the models with their results as scored so far, self.config,
\* the number of models entered, self.result, the last scores frame and the
\* exception that ended the run, if any.
DiffState(ms, cfg) ==
    [base |-> EmptyBase, meta |-> "{}", models |-> ms, cfg |-> cfg, idx |-> 0,
     result |-> <<>>, frame |-> <<>>,
     raised |-> "none", missing |-> {}, target |-> "", value |-> None]

\* The loop body up to the loop over the tests: the model is entered and
\* the local `meta` taken from it if none was taken yet.
DiffEntered(st, i) ==
    [st EXCEPT !.idx = i,
               !.meta = IF @ = "{}" THEN st.models[i].meta ELSE @]

\* The loop body from self.compute_score() on, `run` being that call.
DiffScored(st, i, run) ==
    IF run.raised # "none"
    THEN [st EXCEPT !.models[i].tests = run.tests, !.cfg = run.cfg,
                    !.result = run.tests, !.frame = run.frame,
                    !.raised = run.raised, !.missing = run.missing,
                    !.target = run.target, !.value = run.value]
    ELSE \* self.result["score"]: a MemoteResult is not subscriptable
         [st EXCEPT !.models[i].tests = run.tests, !.cfg = run.cfg,
                    !.result = run.tests, !.frame = run.frame,
                    !.base.total_score =
                        Append(@, [model |-> st.models[i].model,
                                   total_score |-> run.cfg.score]),
                    !.raised = "TypeError", !.target = "MemoteResult.__getitem__"]

\* The body of the loop over diff_results for the model at position i.
DiffModel(st, i) ==
    IF ShapeClash(st.base.tests, st.models[i].tests)
    THEN [DiffEntered(st, i) EXCEPT !.raised = "AttributeError"]
    ELSE DiffScored([DiffEntered(st, i) EXCEPT !.base.tests =
                        MergeTests(@, st.models[i].model, st.models[i].tests)],
                    i, compute_score(st.models[i].tests, st.cfg))

RECURSIVE DiffModels(_, _)
\* The loop over diff_results from position i on; an exception ends it.
DiffModels(st, i) ==
    IF i > Len(st.models) \/ st.raised # "none" THEN st
    ELSE DiffModels(DiffModel(st, i), i + 1)

format_and_score_diff_data(ms, cfg) == DiffModels(DiffState(ms, cfg), 1)

ModelIds == <<"m1", "m2", "m3">>

\* A scalar test with a duration, as the test run of one model records it.
TimedResult(title, metric, duration) ==
    [TestCaseResult(title, metric) EXCEPT !.duration = duration]

\* The results of one model of a diff: t1 is a scalar test, t2 a parametrized
\* one; the title tells the models apart.
DiffValues(t, title) ==
    IF t = "t1"
    THEN {TimedResult(title, m, d) : m \in MetricVals, d \in {None, Int2F(2)}}
    ELSE {ParametrizedTestCaseResult(title, [k \in K |-> Zero]) :
            K \in {{"a"}, {"a", "b"}}}

DiffResults(title) ==
    UNION {{f \in [D -> UNION {DiffValues(t, title) : t \in D}] :
                \A t \in D : f[t] \in DiffValues(t, title)} : D \in SUBSET TestIds}

RECURSIVE DiffInputsOf(_)
\* The mappings of n model file names to results.
DiffInputsOf(n) ==
    IF n = 0 THEN {<<>>}
    ELSE {Append(ms, [model |-> ModelIds[n], meta |-> ModelIds[n], tests |-> r]) :
            ms \in DiffInputsOf(n - 1), r \in DiffResults(ModelIds[n])}

\* The mappings of up to MaxModels model file names to results.
DiffInputs == UNION {DiffInputsOf(n) : n \in 0..MaxModels}

\* Before DiffReport.__init__: the models to compare and the configuration.
InitDiff ==
    /\ models \in DiffInputs
    /\ \E sc \in ScoredCards :
          /\ \A i \in 1..Len(sc) : sc[i].weight = One
          /\ config = ReportConfiguration(sc, <<>>, <<>>)
    /\ result = <<>>
    /\ NewReport
    /\ idx = 0
    /\ base = EmptyBase
    /\ ret = EmptyBase

\* DiffReport.__init__: self.result = format_and_score_diff_data(diff_results),
\* then self.result.update(self.config), which adds the configuration's
\* fields beside "tests".  When the call raises, nothing is returned and
\* self.result is the result of the model it stopped at.
DiffReport ==
    /\ last.op = "__init__"
    /\ LET st == format_and_score_diff_data(models, config)
       IN  /\ models' = st.models
           /\ config' = st.cfg
           /\ idx' = st.idx
           /\ base' = st.base
           /\ scores' = st.frame
           /\ ret' = IF st.raised = "none" THEN st.base ELSE ret
           /\ result' = IF st.raised = "none" THEN st.base.tests ELSE st.result
           /\ last' = Outcome("DiffReport", st, FALSE)
           /\ scoreCalls' = scoreCalls
                    + (IF st.raised = "AttributeError" THEN st.idx - 1 ELSE st.idx)
    /\ UNCHANGED <<miscCalls, storeVars, configVars>>

NextDiff == DiffReport

DiffSpec == InitDiff /\ [][NextDiff]_vars

----------------------------------------------------------------------------
(* ReportConfiguration.load and ReportConfiguration.merge. *)

\* The Python values that reach parse_obj: None, or a dict with its items.
PyNone == [type |-> "NoneType"]
PyDict(items) == [type |-> "dict", items |-> items]

\* card.dict(): the declared fields of a card, here with its key.
CardDict(card) ==
    IF "weight" \in DOMAIN card
    THEN [id |-> card.id, title |-> card.title, cases |-> card.cases,
          weight |-> card.weight]
    ELSE [id |-> card.id, title |-> card.title, cases |-> card.cases]

\* ReportConfiguration.dict(): the declared fields, sections and weights,
\* models turned into dicts all the way down.
ConfigDict(cfg) ==
    [sections |-> [scored |-> [i \in 1..Len(cfg.scored) |-> CardDict(cfg.scored[i])],
                   unscored |-> [i \in 1..Len(cfg.unscored) |-> CardDict(cfg.unscored[i])]],
     weights |-> cfg.weights]

\* d.update(e): d takes every item of e, and the call returns None.
dict_update(d, e) ==
    [self |-> [k \in DOMAIN d \cup DOMAIN e |-> IF k \in DOMAIN e THEN e[k] ELSE d[k]],
     returned |-> PyNone]

\* The cards of a section as parse_obj builds them from their dicts; a
\* scored card without a weight gets 1.0.
ParseScoredCards(cards) ==
    [i \in 1..Len(cards) |->
        ScoredReportCard(cards[i].id, cards[i].title, cards[i].cases,
                         IF "weight" \in DOMAIN cards[i] THEN cards[i].weight ELSE One)]

ParseCards(cards) ==
    [i \in 1..Len(cards) |-> ReportCard(cards[i].id, cards[i].title, cards[i].cases)]

\* ReportConfiguration.parse_obj(obj): a value that is no dict and a dict
\* without the required fields `sections` and `weights` end in pydantic's
\* ValidationError; `missing` lists the required fields that are absent.
parse_obj(obj) ==
    IF obj.type # "dict"
    THEN [raised |-> "ValidationError", missing |-> {},
          target |-> "ReportConfiguration expected dict not NoneType",
          value |-> None, cfg |-> <<>>]
    ELSE IF ~({"sections", "weights"} \subseteq DOMAIN obj.items)
    THEN [raised |-> "ValidationError",
          missing |-> {"sections", "weights"} \ DOMAIN obj.items,
          target |-> "field required", value |-> None, cfg |-> <<>>]
    ELSE [raised |-> "none", missing |-> {}, target |-> "", value |-> None,
          cfg |-> ReportConfiguration(ParseScoredCards(obj.items.sections.scored),
                                      ParseCards(obj.items.sections.unscored),
                                      obj.items.weights)]

\* self.merge(other): parse_obj of what self.dict().update(other.dict())
\* returns.
merge(self, oth) == parse_obj(dict_update(ConfigDict(self), ConfigDict(oth)).returned)

\* What a call of load finds under the file name: no file that can be
\* opened, or a file with the document yaml.load reads from it.
NoFile == [readable |-> FALSE]
FileWith(items) == [readable |-> TRUE, content |-> PyDict(items)]

\* ReportConfiguration.load(filename): the packaged default is read when
\* there is no file name; a custom file that cannot be opened is logged as
\* an error and the content is then the empty dict.
load(filename, file) ==
    LET content == IF file.readable THEN file.content ELSE PyDict(<<>>)
    IN  [run |-> parse_obj(content),
         logged |-> filename # "None" /\ ~file.readable]

\* The configurations a report is made with, and the custom ones merged
\* into them: an unscored section and no weights.
Configurations ==
    {ReportConfiguration(sc, <<>>, w) : sc \in ScoredCards, w \in WeightMaps}

CustomConfigurations ==
    {ReportConfiguration(<<>>, us, <<>>) : us \in UnscoredCards}

\* What the file system can hold under a file name whose document is the
\* one of cfg: nothing to open, the document, or the document cut off
\* before the weights.
FilesOf(cfg) ==
    {NoFile, FileWith(ConfigDict(cfg)), FileWith([sections |-> ConfigDict(cfg).sections])}

\* How a call of load or merge ended, with the file load was called for.
ConfigOutcome(op, filename, file, run, logged) ==
    [op |-> op, filename |-> filename, readable |-> file.readable,
     raised |-> run.raised, missing |-> run.missing,
     target |-> run.target, value |-> run.value, logged |-> logged]

\* Two configurations, before either is merged or anything is loaded.
InitConfig ==
    /\ config \in Configurations
    /\ other \in CustomConfigurations
    /\ merged = <<>>
    /\ result = <<>>
    /\ scores = <<>>
    /\ last = Outcome("__init__", Returned, FALSE)
    /\ miscCalls = 0
    /\ scoreCalls = 0
    /\ NoDiff
    /\ NoStore

\* config.merge(other)
Merge ==
    /\ last.op # "merge"
    /\ LET run == merge(config, other)
       IN  /\ merged' = IF run.raised = "none" THEN run.cfg ELSE merged
           /\ last' = ConfigOutcome("merge", "None", NoFile, run, FALSE)
    /\ UNCHANGED <<reportVarsButLast, storeVars, other>>

\* ReportConfiguration.load(filename), for the default and for a custom
\* file name and for what the file system holds under it: the packaged
\* default is the document of `config`, the custom file that of `other`.
Load ==
    /\ last.op # "load"
    /\ \E filename \in {"None", "custom.yml"},
          file \in FilesOf(config) \cup FilesOf(other) :
          /\ filename = "None" => file = FileWith(ConfigDict(config))
          /\ filename # "None" => file \in FilesOf(other)
          /\ LET call == load(filename, file)
             IN  /\ merged' = IF call.run.raised = "none" THEN call.run.cfg ELSE merged
                 /\ last' = ConfigOutcome("load", filename, file, call.run, call.logged)
    /\ UNCHANGED <<reportVarsButLast, storeVars, other>>

NextConfig ==
    \/ Merge
    \/ Load

ConfigSpec == InitConfig /\ [][NextConfig]_vars

----------------------------------------------------------------------------
(* RepoResultManager: store and load, with the JSON form of a result. *)

\* GitCommitInfo
GitCommitInfo(hexsha, author, email, authored_on) ==
    [hexsha |-> hexsha, author |-> author, email |-> email,
     authored_on |-> authored_on]

\* MetaInformation: the timestamp stands for the fields set at construction;
\* git_info is None until a result manager attaches it.
MetaInformation(timestamp) == [timestamp |-> timestamp, git_info |-> PyNone]

\* MemoteResult
MemoteResult(meta, tests) == [meta |-> meta, tests |-> tests]

\* The commits of the repository: two by the same author, told apart by
\* their hexsha and the time they were authored on.
Hexshas == {"a1", "b2"}

Commits ==
    [h \in Hexshas |->
        [hexsha |-> h, author |-> "Ada", email |-> "ada@example.org",
         authored_datetime |-> IF h = "a1" THEN "2020-01-01T00:00:00+00:00"
                               ELSE "2020-01-02T00:00:00+00:00"]]

\* record_git_info(commit): the head commit when no commit is given.
record_git_info(rp, commit) ==
    LET c == IF commit = "None" THEN rp.commits[rp.head] ELSE rp.commits[commit]
    IN  GitCommitInfo(c.hexsha, c.author, c.email, c.authored_datetime)

\* get_filename(git_info) with the author in place of the hash.
get_filename_ByAuthor(git_info) ==
    [dir |-> "storage_dir", name |-> git_info.author, ext |-> ".json.gz"]

\* get_filename(git_info): join(self._backend, "{}.json.gz".format(hexsha)).
get_filename(git_info) ==
    [dir |-> "storage_dir", name |-> git_info.hexsha, ext |-> ".json.gz"]

\* add_git(meta, git_info): meta.git_info = git_info, on the object itself.
add_git(res, git_info) == [res EXCEPT !.meta.git_info = git_info]

\* JSON values.
JNull == [t |-> "null"]
JNumber(x) == [t |-> "number", v |-> x]
JString(x) == [t |-> "string", v |-> x]
JObject(items) == [t |-> "object", v |-> items]

\* json.dumps of an Optional[float] and of a Dict[str, float].
JsonFloat(x) == IF x = None THEN JNull ELSE JNumber(x)
JsonFloats(d) == JObject([k \in DOMAIN d |-> JNumber(d[k])])

\* json.dumps of a dict whose values are all None.
JsonNones(d) == JObject([k \in DOMAIN d |-> JNull])

\* A float json.dumps(allow_nan=False) refuses: nan, inf and -inf.
NonFinite(x) == x # None /\ x[2] = 0

\* The floats of a test case result.
FloatsOf(r) ==
    IF r.kind = "scalar" THEN {r.metric, r.score, r.duration}
    ELSE {r.metric[k] : k \in DOMAIN r.metric}
            \cup {r.score[k] : k \in DOMAIN r.score}
            \cup {r.duration[k] : k \in DOMAIN r.duration}

\* BaseModel.json() of a test case result: every declared field, and no
\* mark of the class; title stands for title, summary and format_type.
TestJson(r) ==
    IF r.kind = "scalar"
    THEN JObject([title |-> JString(r.title), result |-> JNull,
                  duration |-> JsonFloat(r.duration), message |-> JNull,
                  metric |-> JsonFloat(r.metric), score |-> JsonFloat(r.score),
                  data |-> JNull])
    ELSE JObject([title |-> JString(r.title), result |-> JsonNones(r.result),
                  duration |-> JsonFloats(r.duration), message |-> JsonNones(r.message),
                  metric |-> JsonFloats(r.metric), score |-> JsonFloats(r.score),
                  data |-> JsonNones(r.data)])

\* BaseModel.json() of the meta information.
MetaJson(meta) ==
    JObject([timestamp |-> JString(meta.timestamp),
             git_info |-> IF meta.git_info = PyNone THEN JNull
                          ELSE JObject([f \in DOMAIN meta.git_info |->
                                           JString(meta.git_info[f])])])

\* jsonify(result): result.json(allow_nan=False, ...); a float that JSON has
\* no form for makes json.dumps raise ValueError, which is logged as
\* critical and raised again.
jsonify(res) ==
    IF \E t \in DOMAIN res.tests : \E x \in FloatsOf(res.tests[t]) : NonFinite(x)
    THEN [raised |-> "ValueError", json |-> JNull]
    ELSE [raised |-> "none",
          json |-> JObject([meta |-> MetaJson(res.meta),
                            tests |-> JObject([t \in DOMAIN res.tests |->
                                                  TestJson(res.tests[t])])])]

\* A float, an Optional[float] and a Dict[str, float] as pydantic validates
\* them from JSON.
IsFloat(j) == j.t = "number"
IsOptFloat(j) == j.t \in {"null", "number"}
IsFloats(j) == j.t = "object" /\ \A k \in DOMAIN j.v : IsFloat(j.v[k])
IsDict(j) == j.t = "object"

ParseOptFloat(j) == IF j.t = "null" THEN None ELSE j.v
ParseFloats(j) == [k \in DOMAIN j.v |-> j.v[k].v]
ParseNones(j) == [k \in DOMAIN j.v |-> None]

\* Whether the JSON object validates as a ParametrizedTestCaseResult: each
\* of its dict fields must be a dict, null is not accepted for them.
ValidParametrized(j) ==
    /\ IsDict(j.v.result) /\ IsDict(j.v.message) /\ IsDict(j.v.data)
    /\ IsFloats(j.v.duration) /\ IsFloats(j.v.metric) /\ IsFloats(j.v.score)

\* The JSON object as a ParametrizedTestCaseResult and as a TestCaseResult.
AsParametrized(j) ==
    [kind |-> "param", title |-> j.v.title.v,
     metric |-> ParseFloats(j.v.metric), score |-> ParseFloats(j.v.score),
     data |-> ParseNones(j.v.data), duration |-> ParseFloats(j.v.duration),
     message |-> ParseNones(j.v.message), result |-> ParseNones(j.v.result)]

AsTestCase(j) ==
    [kind |-> "scalar", title |-> j.v.title.v,
     metric |-> ParseOptFloat(j.v.metric), score |-> ParseOptFloat(j.v.score),
     data |-> None, duration |-> ParseOptFloat(j.v.duration),
     message |-> None, result |-> None]

\* One entry of MemoteResult.tests, of type
\* Union[ParametrizedTestCaseResult, TestCaseResult]: pydantic takes the
\* first class of the union that validates.
ParseTest(j) == IF ValidParametrized(j) THEN AsParametrized(j) ELSE AsTestCase(j)

\* MetaInformation from JSON.
ParseMeta(j) ==
    [timestamp |-> j.v.timestamp.v,
     git_info |-> IF j.v.git_info.t = "null" THEN PyNone
                  ELSE [f \in DOMAIN j.v.git_info.v |-> j.v.git_info.v[f].v]]

\* MemoteResult from the JSON document of a stored result.
ParseResult(j) ==
    MemoteResult(ParseMeta(j.v.meta),
                 [t \in DOMAIN j.v.tests.v |-> ParseTest(j.v.tests.v[t])])

\* ResultManager.store(result, filename): the compressed JSON serialization
\* is written under the file name, replacing what was there; a
\* serialization error is passed on and nothing is written.
ResultManager_store(files, res, filename) ==
    LET doc == jsonify(res)
    IN  IF doc.raised # "none" THEN [raised |-> doc.raised, files |-> files]
        ELSE [raised |-> "none",
              files |-> [f \in DOMAIN files \cup {filename} |->
                            IF f = filename THEN [gzip |-> doc.json] ELSE files[f]]]

\* ResultManager.load(filename): the result deserialized from the file; a
\* missing file is an error passed on to the caller.
ResultManager_load(files, filename) ==
    IF filename \notin DOMAIN files
    THEN [raised |-> "FileNotFoundError", result |-> <<>>]
    ELSE [raised |-> "none", result |-> ParseResult(files[filename].gzip)]

\* RepoResultManager.store(result, commit): the commit info is attached to
\* the caller's result before anything is written.
store(rp, files, res, commit) ==
    LET git_info == record_git_info(rp, commit)
        filename == get_filename(git_info)
        written == ResultManager_store(files, add_git(res, git_info), filename)
    IN  [raised |-> written.raised, files |-> written.files,
         result |-> add_git(res, git_info), git_info |-> git_info,
         filename |-> filename]

\* RepoResultManager.load(commit)
load_result(rp, files, commit) ==
    LET git_info == record_git_info(rp, commit)
        filename == get_filename(git_info)
        read == ResultManager_load(files, filename)
    IN  [raised |-> read.raised,
         result |-> IF read.raised = "none" THEN add_git(read.result, git_info)
                    ELSE <<>>,
         git_info |-> git_info, filename |-> filename]

\* The results handed to store: no test, a scalar test, scored or not or
\* with a metric that is not a number, and a parametrized test; a result
\* that was loaded before carries the commit info of that commit.
Timestamp == "2026-01-01T00:00:00"

StoredTests ==
    {<<>>,
     [t \in {"t1"} |-> TestCaseResult("T", Rat(1, 4))],
     [t \in {"t1"} |-> [TestCaseResult("T", Rat(1, 4)) EXCEPT !.score = Rat(3, 4)]],
     [t \in {"t1"} |-> TestCaseResult("T", <<0, 0>>)],
     [t \in {"t2"} |->
        [ParametrizedTestCaseResult("T", [k \in ParamKeys |-> One])
            EXCEPT !.duration = <<>>, !.message = <<>>, !.result = <<>>]]}

StoredResults ==
    {MemoteResult(MetaInformation(Timestamp), ts) : ts \in StoredTests}
        \cup {add_git(MemoteResult(MetaInformation(Timestamp), <<>>),
                      record_git_info([head |-> "a1", commits |-> Commits], "a1"))}

\* How a call of store or load ended, for which commit and file.
StoreOutcome(op, commit, run) ==
    [op |-> op, commit |-> commit, hexsha |-> run.git_info.hexsha,
     filename |-> run.filename, raised |-> run.raised, missing |-> {},
     target |-> "", value |-> None, logged |-> FALSE]

\* A result manager on a repository and an empty storage directory.
InitStore ==
    /\ repo \in {[head |-> h, commits |-> Commits] : h \in Hexshas}
    /\ backend = <<>>
    /\ stored = <<>>
    /\ loaded = <<>>
    /\ config = ReportConfiguration(<<>>, <<>>, <<>>)
    /\ result = <<>>
    /\ scores = <<>>
    /\ last = Outcome("__init__", Returned, FALSE)
    /\ miscCalls = 0
    /\ scoreCalls = 0
    /\ NoDiff
    /\ NoMerge

\* manager.store(result, commit): `stored` keeps the result as the call
\* found it and as it left it, when the call returned.
Store ==
    /\ \E res \in StoredResults, commit \in {"None"} \cup Hexshas :
          LET run == store(repo, backend, res, commit)
          IN  /\ backend' = run.files
              /\ stored' = IF run.raised # "none" THEN stored
                           ELSE [h \in DOMAIN stored \cup {run.git_info.hexsha} |->
                                    IF h = run.git_info.hexsha
                                    THEN [given |-> res, left |-> run.result,
                                          filename |-> run.filename]
                                    ELSE stored[h]]
              /\ last' = StoreOutcome("store", commit, run)
    /\ UNCHANGED <<reportVarsButLast, repo, loaded, configVars>>

\* manager.load(commit)
LoadResult ==
    /\ \E commit \in {"None"} \cup Hexshas :
          LET run == load_result(repo, backend, commit)
          IN  /\ loaded' = IF run.raised = "none" THEN run.result ELSE loaded
              /\ last' = StoreOutcome("load_result", commit, run)
    /\ UNCHANGED <<reportVarsButLast, repo, backend, stored, configVars>>

NextStore ==
    \/ Store
    \/ LoadResult

StoreSpec == InitStore /\ [][NextStore]_vars

----------------------------------------------------------------------------
(* Properties of compute_score. *)

\* compute_score has run on this report, last or earlier.
Scored == scoreCalls > 0

\* The last operation ran compute_score.
RanComputeScore == last.op \in {"compute_score", "SnapshotReport"}

ScalarTests == {t \in DOMAIN result : result[t].kind = "scalar"}

ParamTests == {t \in DOMAIN result : result[t].kind = "param"}

RECURSIVE SumOver(_, _)
\* The sum of f[k] over the keys k in K.
SumOver(f, K) ==
    IF K = {} THEN Zero
    ELSE LET k == CHOOSE x \in K : TRUE IN FAdd(f[k], SumOver(f, K \ {k}))

\* The arithmetic mean of the values of a non-empty mapping.
MeanOf(f) == FDiv(SumOver(f, DOMAIN f), Int2F(Cardinality(DOMAIN f)))

\* C1: once compute_score has run, every scalar test of the result carries
\* score = 1 - metric (score + metric = 1), whatever weight the configuration
\* gives the test and however the run ended.
C1_ScalarScore ==
    Scored => \A t \in ScalarTests :
                /\ result[t].score # None
                /\ FAdd(result[t].score, result[t].metric) = One

\* A scalar test of metric 1/4 with a configured weight of 2.0 was scored 3/4.
C1_Witness ==
    /\ RanComputeScore
    /\ \E t \in ScalarTests :
          /\ result[t].metric = Rat(1, 4)
          /\ result[t].score = Rat(3, 4)
          /\ t \in DOMAIN config.weights
          /\ config.weights[t] = Int2F(2)

\* C2: once compute_score has run, every parametrized test carries
\* score[k] = 1 - metric[k] for exactly the keys k of its metric; its row of
\* the scores frame holds the mean of those per-key scores, or 0 for an empty
\* metric (which writes no score key), times the weight of the test.
C2_ParamScore ==
    Scored => \A t \in ParamTests :
                /\ DOMAIN result[t].score = DOMAIN result[t].metric
                /\ \A k \in DOMAIN result[t].metric :
                      FAdd(result[t].score[k], result[t].metric[k]) = One
                /\ scores[t].score =
                      FMul(IF DOMAIN result[t].metric = {} THEN Zero
                           ELSE MeanOf(result[t].score),
                           TestWeight(config, t))

\* The metric {a: 0, b: 1} was scored {a: 1, b: 0} and contributes 1/2.
C2_Witness ==
    /\ RanComputeScore
    /\ \E t \in ParamTests :
          /\ result[t].metric = [k \in {"a", "b"} |-> IF k = "a" THEN Zero ELSE One]
          /\ result[t].score = [k \in {"a", "b"} |-> IF k = "a" THEN One ELSE Zero]
          /\ t \notin DOMAIN config.weights
          /\ scores[t].score = Rat(1, 2)

\* The scored cards with at least one case.
NonEmptyCards == {i \in 1..Len(config.scored) : config.scored[i].cases # <<>>}

\* Every case of every scored card is a test of the result.
CardsResolved == scored_tests(config) \subseteq DOMAIN result

RECURSIVE WeightedCards(_, _)
\* The sum over the non-empty scored cards up to position n of the card's sum
\* of this column of the frame times the card's weight.
WeightedCards(column, n) ==
    IF n = 0 THEN Zero
    ELSE FAdd(WeightedCards(column, n - 1),
              FMul(ColumnSum(scores, config.scored[n].cases, column),
                   config.scored[n].weight))

\* C3: after compute_score on a configuration with a non-empty scored card,
\* cases that are all tests of the result and a non-zero weighted maximum,
\* the scored section carries the overall score
\* sum(card numerator * card.weight) / sum(card maximum * card.weight).
C3_OverallScore ==
    (/\ RanComputeScore
     /\ NonEmptyCards # {}
     /\ CardsResolved
     /\ WeightedCards("max", Len(config.scored)) # Zero)
    => config.score = FDiv(WeightedCards("score", Len(config.scored)),
                           WeightedCards("max", Len(config.scored)))

\* The scenario of C3: t1 with metric 1/4, one scored card [t1] of weight 1.0.
C3_Scenario ==
    /\ DOMAIN result = {"t1"}
    /\ result["t1"].metric = Rat(1, 4)
    /\ Len(config.scored) = 1
    /\ config.scored[1].cases = <<"t1">>
    /\ config.scored[1].weight = One
    /\ config.weights = <<>>

\* What compute_score does in the scenario of C3: it scores t1 3/4, computes
\* 3/4 for the card and ends in a ValueError on the assignment to card.score,
\* leaving the card and the section without a score.
C3_ScenarioRaises ==
    (C3_Scenario /\ RanComputeScore)
    => /\ last.raised = "ValueError"
       /\ last.target = "ScoredReportCard.score"
       /\ last.value = Rat(3, 4)
       /\ result["t1"].score = Rat(3, 4)
       /\ config.scored[1].score = None
       /\ config.score = None

C3_Witness == C3_Scenario /\ RanComputeScore

\* C4: after compute_score, every scored card with at least one case, all of
\* them tests of the result, carries score = (sum over its cases of test
\* contribution * test weight) / (number of its cases).
C4_CardScore ==
    (RanComputeScore /\ CardsResolved)
    => \A i \in NonEmptyCards :
          config.scored[i].score =
              FDiv(ColumnSum(scores, config.scored[i].cases, "score"),
                   Int2F(Len(config.scored[i].cases)))

----------------------------------------------------------------------------
(* Properties of determine_miscellaneous_tests. *)

\* A step that calls determine_miscellaneous_tests (by itself or in
\* SnapshotReport.__init__).
MiscStep == miscCalls' = miscCalls + 1

\* The cases of the unscored card "misc", <<>> if there is no such card.
MiscCases(cfg) ==
    IF CardIndex(cfg.unscored, "misc") = 0 THEN <<>>
    ELSE cfg.unscored[CardIndex(cfg.unscored, "misc")].cases

Count(id, cases) == Cardinality({i \in 1..Len(cases) : cases[i] = id})

\* C7: a call of determine_miscellaneous_tests after the first leaves every
\* card of both sections as it was, and no call makes a test id appear twice
\* in the card "misc" (an id is listed at most once, unless the configuration
\* listed it more often to begin with).
C7_MiscIdempotent ==
    [][MiscStep =>
        /\ miscCalls >= 1 =>
              /\ config'.scored = config.scored
              /\ config'.unscored = config.unscored
        /\ \A id \in TestIds :
              Count(id, MiscCases(config')) <= 1
              \/ Count(id, MiscCases(config')) = Count(id, MiscCases(config))]_vars

\* Two calls were made, and the first one put both tests in a card "misc".
C7_Witness ==
    /\ miscCalls = 2
    /\ last.op = "determine_miscellaneous_tests"
    /\ Range(MiscCases(config)) = {"t1", "t2"}
    /\ Len(MiscCases(config)) = 2

\* C8: after determine_miscellaneous_tests every test id of the result is a
\* case of some card.  With no unconfigured id the configuration is left as it
\* was (no card "misc" is created).  Otherwise the unconfigured ids are added,
\* each once, to the unscored card "misc": a new last card titled
\* "Misc. Tests" that lists exactly those ids when there was no card "misc",
\* the existing card with its cases kept in front when there was one.
C8_MiscCoversResult ==
    [][MiscStep =>
        LET U == unconfigured_tests(result, config)
            had == CardIndex(config.unscored, "misc")
            now == CardIndex(config'.unscored, "misc")
        IN  /\ DOMAIN result \subseteq get_configured_tests(config')
            /\ config'.scored = config.scored
            /\ U = {} => config'.unscored = config.unscored
            /\ U # {} =>
                  /\ now # 0
                  /\ \E order \in Orders(U) :
                        config'.unscored[now].cases = MiscCases(config) \o order
                  /\ had = 0 =>
                        /\ now = Len(config.unscored) + 1
                        /\ config'.unscored[now].title = "Misc. Tests"
                        /\ Range(config'.unscored[now].cases) = U
                        /\ SubSeq(config'.unscored, 1, Len(config.unscored))
                              = config.unscored
                  /\ had # 0 =>
                        /\ now = had
                        /\ Len(config'.unscored) = Len(config.unscored)
                        /\ \A i \in 1..Len(config.unscored) :
                              /\ config'.unscored[i].id = config.unscored[i].id
                              /\ config'.unscored[i].title = config.unscored[i].title
                              /\ i # had =>
                                    config'.unscored[i] = config.unscored[i]]_vars

\* A card "misc" titled "Misc. Tests" was created behind the card u1 and lists
\* the one unconfigured test, the other test being a case of u1.
C8_Witness ==
    /\ miscCalls = 1
    /\ DOMAIN result = {"t1", "t2"}
    /\ Len(config.unscored) = 2
    /\ config.unscored[1].id = "u1"
    /\ config.unscored[1].cases = <<"t1">>
    /\ config.unscored[2] = ReportCard("misc", "Misc. Tests", <<"t2">>)

\* The ids that cards list and the result does not have.
MissingFrom(cards) == CardTests(cards) \ DOMAIN result

\* C9: when a card of the scored or of the unscored section lists a test id
\* the result does not have, compute_score (by itself or in
\* SnapshotReport.__init__) ends in an error that names the id.
C9_MissingIdIsFatal ==
    RanComputeScore =>
        \A id \in MissingFrom(config.scored) \cup MissingFrom(config.unscored) :
            /\ last.raised = "KeyError"
            /\ id \in last.missing

\* What the code does for a missing id: when the first scored card that has
\* cases lists ids the result does not have, the run ends in a KeyError
\* naming exactly those; no other run ends in a KeyError.
C9_FirstCardKeyError ==
    RanComputeScore =>
        LET first == IF NonEmptyCards = {} THEN 0
                     ELSE CHOOSE i \in NonEmptyCards : \A j \in NonEmptyCards : i <= j
            absent == IF first = 0 THEN {}
                      ELSE Range(config.scored[first].cases) \ DOMAIN result
        IN  IF absent # {}
            THEN last.raised = "KeyError" /\ last.missing = absent
            ELSE last.raised # "KeyError"

\* An unscored card lists "missing", and SnapshotReport.__init__ ended in
\* another error than a KeyError.
C9_Witness ==
    /\ last.op = "SnapshotReport"
    /\ "missing" \in MissingFrom(config.unscored)
    /\ MissingFrom(config.scored) = {}
    /\ last.raised = "ValueError"

----------------------------------------------------------------------------
(* Properties of the diff assembly. *)

\* The ids of the scalar tests the models have.
DiffScalarTests ==
    {t \in TestIds : \E i \in 1..Len(models) :
        t \in DOMAIN models[i].tests /\ models[i].tests[t].kind = "scalar"}

RECURSIVE ExpectedDiff(_, _)
\* One entry for each of the first n models that has the test, in model order.
ExpectedDiff(t, n) ==
    IF n = 0 THEN <<>>
    ELSE IF t \in DOMAIN models[n].tests
    THEN Append(ExpectedDiff(t, n - 1), DiffEntry(models[n].model, models[n].tests[t]))
    ELSE ExpectedDiff(t, n - 1)

\* C10: the diff assembly over the models returns a structure in which every
\* scalar test id has a diff list with one entry for each model that has the
\* test, in model order, the entry carrying the model's identifier and its
\* data, duration, message, metric and result.
C10_DiffEntries ==
    (last.op = "DiffReport" /\ DiffScalarTests # {}) =>
        /\ last.raised = "none"
        /\ \A t \in DiffScalarTests :
              /\ t \in DOMAIN ret.tests
              /\ ret.tests[t].diff = ExpectedDiff(t, Len(models))

\* What the code does: with at least one model the assembly ends in the
\* exception of the first model's compute_score and returns nothing; the
\* local structure then holds the entries of the first model only.
C10_DiffRaises ==
    (last.op = "DiffReport" /\ models # <<>>) =>
        /\ last.raised \in {"KeyError", "ValueError", "ZeroDivisionError"}
        /\ idx = 1
        /\ ret = EmptyBase
        /\ \A t \in DiffScalarTests \cap DOMAIN models[1].tests :
              base.tests[t].diff = ExpectedDiff(t, 1)

\* Two models share the scalar test t1 and the assembly has run.
C10_Witness ==
    /\ last.op = "DiffReport"
    /\ Len(models) = 2
    /\ "t1" \in DOMAIN models[1].tests
    /\ "t1" \in DOMAIN models[2].tests
    /\ Len(config.scored) = 1
    /\ config.scored[1].cases = <<"t1">>

\* C11: in the structure the diff assembly returns for one or more models,
\* "meta" is the meta of the first model's result in iteration order,
\* whatever the number and the meta of the models after it.
C11_MetaOfFirstModel ==
    (last.op = "DiffReport" /\ models # <<>>) =>
        /\ last.raised = "none"
        /\ ret.meta = models[1].meta

\* What the code does: `meta = result_obj["meta"]` rebinds the local name,
\* so base["meta"] stays the empty dict it was created as, and with at least
\* one model nothing is returned.
C11_MetaNeverAssigned ==
    /\ base.meta = "{}"
    /\ ret.meta = "{}"
    /\ (last.op = "DiffReport" /\ models # <<>>) => last.raised # "none"

\* The assembly has run over two models, whose metas differ.
C11_Witness ==
    /\ last.op = "DiffReport"
    /\ Len(models) = 2
    /\ models[1].meta # models[2].meta
    /\ models[1].tests # <<>>

\* The entries score["total_score"]["diff"] is claimed to hold for the first
\* n models: the model's identifier and the overall score that compute_score
\* stores when it scores the model's result alone against the configuration.
RECURSIVE ExpectedTotals(_)
ExpectedTotals(n) ==
    IF n = 0 THEN <<>>
    ELSE Append(ExpectedTotals(n - 1),
                [model |-> models[n].model,
                 total_score |-> compute_score(models[n].tests, config).cfg.score])

\* C12: constructing a diff report over N >= 1 models completes, and
\* score.total_score.diff has N entries in model order, entry i with model
\* i's identifier and the overall score of model i scored alone; the records
\* of score.sections.diff are tagged with the model that owns them.
C12_DiffTotals ==
    (last.op = "DiffReport" /\ models # <<>>) =>
        /\ last.raised = "none"
        /\ Len(ret.total_score) = Len(models)
        /\ ret.total_score = ExpectedTotals(Len(models))
        /\ \A k \in 1..Len(ret.sections) :
              \E i \in 1..Len(models) : ret.sections[k].model = models[i].model

\* What the code does: the construction ends in the exception of the first
\* model's compute_score, before any entry is appended to either list.
C12_NoTotals ==
    (last.op = "DiffReport" /\ models # <<>>) =>
        /\ last.raised \in {"KeyError", "ValueError", "ZeroDivisionError"}
        /\ base.total_score = <<>>
        /\ base.sections = <<>>
        /\ ret.total_score = <<>>

\* The construction has run over two models, the first with a test that the
\* one scored card lists.
C12_Witness ==
    /\ last.op = "DiffReport"
    /\ Len(models) = 2
    /\ Len(config.scored) = 1
    /\ config.scored[1].cases # <<>>
    /\ \A i \in 1..Len(config.scored[1].cases) :
          config.scored[1].cases[i] \in DOMAIN models[1].tests

----------------------------------------------------------------------------
(* Properties of the report configuration. *)

\* C14: for valid configurations self and other, self.merge(other) returns
\* a configuration whose top-level fields, sections and weights, are those
\* of other.
C14_MergeTakesOther ==
    last.op = "merge" =>
        /\ last.raised = "none"
        /\ merged.scored = other.scored
        /\ merged.unscored = other.unscored
        /\ merged.weights = other.weights

\* What the code does: dict.update returns None, which parse_obj rejects,
\* so merge raises for every pair of configurations and returns nothing.
C14_MergeRaises ==
    last.op = "merge" => last.raised = "ValidationError"

\* merge has been called on a configuration with a scored card, with
\* another configuration that has an unscored card.
C14_Witness ==
    /\ last.op = "merge"
    /\ config.scored # <<>>
    /\ other.unscored # <<>>

\* C15: load with a custom file name whose file is missing or unreadable
\* does not fail: it logs the problem and returns the empty configuration,
\* with no card and no weight.
C15_LoadFallsBack ==
    (last.op = "load" /\ last.filename # "None" /\ ~last.readable) =>
        /\ last.raised = "none"
        /\ last.logged
        /\ merged = ReportConfiguration(<<>>, <<>>, <<>>)

\* What the code does: the problem is logged and the content set to the
\* empty dict, which parse_obj rejects for want of both required fields.
C15_LoadRaises ==
    (last.op = "load" /\ last.filename # "None" /\ ~last.readable) =>
        /\ last.logged
        /\ last.raised = "ValidationError"
        /\ last.missing = {"sections", "weights"}

\* load has been called with a custom file name and no file to open.
C15_Witness ==
    /\ last.op = "load"
    /\ last.filename = "custom.yml"
    /\ ~last.readable

----------------------------------------------------------------------------
(* Properties of the result store. *)

\* The file name the claim gives for a commit hash.
FileOfHash(hexsha) == [dir |-> "storage_dir", name |-> hexsha, ext |-> ".json.gz"]

\* C13 as stated: for every result r and commit c, store(r, c) returns and
\* load(c) right after it returns r with meta.git_info populated.
C13_RoundTripEveryResult ==
    last.op = "store" =>
        /\ last.raised = "none"
        /\ LET run == load_result(repo, backend, last.commit)
           IN  /\ run.raised = "none"
               /\ run.result = stored[last.hexsha].left

\* C13, amended: for every result r whose numbers are all finite and every
\* commit c, store(r, c) leaves r with the commit info of c, and load(c)
\* then returns a result equal to r except that meta.git_info is that same
\* commit info (after several stores for the commit, r is the last one
\* stored); both use the file name {storage_dir}/{hexsha}.json.gz.
C13_RoundTrip ==
    /\ (last.op = "store" /\ last.raised = "none") =>
          /\ stored[last.hexsha].left =
                add_git(stored[last.hexsha].given, record_git_info(repo, last.commit))
          /\ last.filename = FileOfHash(last.hexsha)
          /\ last.filename \in DOMAIN backend
    /\ (last.op = "load_result" /\ last.hexsha \in DOMAIN stored) =>
          /\ last.raised = "none"
          /\ loaded = add_git(stored[last.hexsha].given,
                              record_git_info(repo, last.commit))
          /\ loaded.meta.git_info = stored[last.hexsha].left.meta.git_info
          /\ loaded.meta.git_info.hexsha = last.hexsha
          /\ last.filename = stored[last.hexsha].filename
          /\ last.filename = FileOfHash(last.hexsha)

\* Results were stored for both commits and the one of a commit, with a
\* parametrized test, has been loaded.
C13_Witness ==
    /\ last.op = "load_result"
    /\ last.raised = "none"
    /\ DOMAIN stored = Hexshas
    /\ stored["a1"].given # stored["b2"].given
    /\ "t2" \in DOMAIN loaded.tests
    /\ loaded.tests["t2"].kind = "param"

----------------------------------------------------------------------------
(* Frame and failure of compute_score. *)

\* The metrics of a result, by test.
Metrics(tests) == [t \in DOMAIN tests |-> tests[t].metric]

\* The per-test scores of a result, by test.
TestScores(tests) == [t \in DOMAIN tests |-> tests[t].score]

\* What compute_score reads of a section's cards: cases and weight, by card.
CardFrame(cards) ==
    [i \in 1..Len(cards) |->
        [id |-> cards[i].id, cases |-> cards[i].cases, weight |-> cards[i].weight]]

\* The card scores of the scored section, by card.
CardScores(cards) == [i \in 1..Len(cards) |-> cards[i].score]

\* C16: a run of compute_score changes no metric, no card's cases, no card
\* weight and no per-test weight, and a run that follows another on the same
\* result and configuration leaves every per-test score, every card score
\* and the overall score as the run before left them.
C16_Idempotent ==
    [][/\ scoreCalls' > scoreCalls =>
            /\ Metrics(result') = Metrics(result)
            /\ CardFrame(config'.scored) = CardFrame(config.scored)
            /\ config'.weights = config.weights
       /\ (scoreCalls > 0 /\ last'.op = "compute_score") =>
            /\ TestScores(result') = TestScores(result)
            /\ CardScores(config'.scored) = CardScores(config.scored)
            /\ config'.score = config.score
            /\ scores' = scores]_vars

\* compute_score has run twice on a result with both tests and a card that
\* lists a test of it.
C16_Witness ==
    /\ scoreCalls = 2
    /\ last.op = "compute_score"
    /\ DOMAIN result = TestIds
    /\ \A t \in TestIds : result[t].score # None
    /\ Len(config.scored) = 1
    /\ config.scored[1].cases = <<"t1">>

\* Two results agree on the tests that the scored cards refer to: the same
\* of them are present, with the same metrics.
AgreeOnScored(r1, r2, cfg) ==
    \A t \in scored_tests(cfg) :
        /\ t \in DOMAIN r1 <=> t \in DOMAIN r2
        /\ t \in DOMAIN r1 =>
              /\ r1[t].kind = r2[t].kind
              /\ r1[t].metric = r2[t].metric

\* A run of compute_score ended as the report did, with the same card
\* scores and overall score and the same outcome.
SameScores(run, cfg, out) ==
    /\ CardScores(run.cfg.scored) = CardScores(cfg.scored)
    /\ run.cfg.score = cfg.score
    /\ run.raised = out.raised
    /\ run.missing = out.missing
    /\ run.target = out.target
    /\ run.value = out.value

\* C17: snapshot scoring of a result gives the card scores and the overall
\* score that it gives, against the same configuration, for every other
\* result that agrees with it on the tests the scored cards refer to,
\* whatever tests either result has besides (unconfigured ones, which go to
\* the card misc, or ones listed in unscored cards); the same holds of the
\* way the scoring ends and of the card score it last computed.
C17_UnscoredTestsDoNotCount ==
    [][last'.op = "SnapshotReport" =>
          \A r2 \in Results \cup MiscResults :
              AgreeOnScored(result, r2, config) =>
                  \A order \in Orders(unconfigured_tests(r2, config)) :
                      SameScores(compute_score(r2,
                                     determine_miscellaneous_tests(r2, config, order)),
                                 config', last')]_vars

\* Snapshot scoring has run on a result with a test that no card lists and
\* that went to the card misc, and has computed the score of the one scored
\* card from the other test.
C17_Witness ==
    /\ last.op = "SnapshotReport"
    /\ DOMAIN result = TestIds
    /\ Len(config.scored) = 1
    /\ config.scored[1].cases = <<"t1">>
    /\ CardIndex(config.unscored, "misc") # 0
    /\ "t2" \in Range(config.unscored[CardIndex(config.unscored, "misc")].cases)
    /\ last.value # None

\* The per-test scores are written: scoring a test again changes nothing.
TestScoresWritten == \A t \in DOMAIN result : result[t] = ScoredTest(result[t])

\* C18 as stated: compute_score stores an overall score only when the
\* weighted maximum over the non-empty scored cards is non-zero; when no
\* scored card has a case, or the weighted maximum sums to zero, it ends in
\* a division error after the per-test scores were written and stores no
\* overall score.
C18_ZeroMaximumDivisionError ==
    RanComputeScore =>
        /\ config.score # None =>
              CardsResolved /\ WeightedCards("max", Len(config.scored)) # Zero
        /\ (\/ NonEmptyCards = {}
            \/ CardsResolved /\ WeightedCards("max", Len(config.scored)) = Zero) =>
              /\ last.raised = "ZeroDivisionError"
              /\ TestScoresWritten
              /\ config.score = None

\* C18, amended: compute_score stores an overall score only when the
\* weighted maximum over the non-empty scored cards is non-zero; when no
\* scored card has a case it ends in a division error after the per-test
\* scores were written and stores no overall score; with a scored card that
\* has a case it does not end in a division error, not even when the
\* weighted maximum sums to zero.
C18_DivisionError ==
    RanComputeScore =>
        /\ config.score # None =>
              CardsResolved /\ WeightedCards("max", Len(config.scored)) # Zero
        /\ NonEmptyCards = {} =>
              /\ last.raised = "ZeroDivisionError"
              /\ TestScoresWritten
              /\ config.score = None
        /\ NonEmptyCards # {} => last.raised # "ZeroDivisionError"

\* compute_score has run on a result with both tests and a configuration
\* whose one scored card lists no case, and has scored the tests.
C18_Witness ==
    /\ RanComputeScore
    /\ DOMAIN result = TestIds
    /\ Len(config.scored) = 1
    /\ config.scored[1].cases = <<>>
    /\ last.raised = "ZeroDivisionError"
    /\ result["t1"].score # None

\* compute_score has run on a scored card whose one test has the weight
\* 0.0, which makes the weighted maximum zero.
C18_ZeroMaximum ==
    /\ RanComputeScore
    /\ NonEmptyCards # {}
    /\ CardsResolved
    /\ WeightedCards("max", Len(config.scored)) = Zero

====
